---------------------------- MODULE Spec2Model ----------------------------
(***************************************************************************)
(* A model of two pieces of chemkit:                                       *)
(*                                                                         *)
(*  - the OPLS force field engine (OplsForceField: constructor and         *)
(*    setup()), with the ForceField base class operations it calls         *)
(*    (topology(), addCalculation(), calculations(),                       *)
(*    setCalculationSetup(), setFlags()) and the per-calculation           *)
(*    setup(parameters), which are not part of the translated sources and  *)
(*    are modelled from the specification;                                 *)
(*                                                                         *)
(*  - GraphicsTransform: the constructors, the static methods identity(),  *)
(*    translation(), rotation(), perspective(), frustum() and              *)
(*    orthographic(), and the operations that change the matrix in place   *)
(*    (invert(), operator*=, operator=, writes through operator()).        *)
(*                                                                         *)
(* Spec is the force field engine, SpecTransform is the transform.         *)
(***************************************************************************)
EXTENDS Integers, Sequences, FiniteSets, TLC

VARIABLES
    topology,       \* ForceField: the attached topology, or NoTopology
    m_parameters,   \* OplsForceField::m_parameters: the table, or NullParameters
    flags,          \* ForceField: the capability flags
    calculations,   \* ForceField: the ordered calculation collection
    ret,            \* the value returned by the last setup() call (if any)
    log,            \* the calculation setup calls made by the last setup() call
    nullSetup,      \* a calculation's setup was invoked with a null table
    nsetups,        \* number of setup() calls made so far
    last,           \* the last operation performed on the engine
    m_matrix,       \* GraphicsTransform::m_matrix, addressed (row, column)
    args,           \* the last method called on the transform, with arguments
    nops            \* number of in-place operations on the transform so far

ffvars == <<topology, m_parameters, flags, calculations, ret, log,
            nullSetup, nsetups, last>>
gtvars == <<m_matrix, args, nops>>
vars == <<topology, m_parameters, flags, calculations, ret, log,
          nullSetup, nsetups, last, m_matrix, args, nops>>

---------------------------------------------------------------------------
(* Bounds *)

\* largest number of tuples in one interaction sequence of a topology
MaxTuples == 2

\* largest number of setup() calls on one engine
MaxSetups == 2

\* largest coordinate handed to the transform factories
MaxCoord == 1

\* largest number of in-place operations on one transform
MaxOps == 1

---------------------------------------------------------------------------
(* Topology (consumed read-only): four ordered sequences of atom-index     *)
(* tuples.  Atom indices and tuples are 0-based as in the code; sequences  *)
(* of tuples are TLA+ sequences.                                           *)

\* the null topology pointer
NoTopology == [null |-> TRUE]

Topo(b, a, t, n) ==
    [null      |-> FALSE,
     bonded    |-> [i \in 1..b |-> <<i - 1, i>>],
     angle     |-> [i \in 1..a |-> <<i - 1, i, i + 1>>],
     torsion   |-> [i \in 1..t |-> <<i - 1, i, i + 1, i + 2>>],
     nonbonded |-> [i \in 1..n |-> <<i - 1, i + 2>>]]

\* the topologies handed to the engine: any number of bonded tuples, angle
\* tuples or none, torsion tuples with their nonbonded end pairs or none
Topologies ==
    {Topo(b, a, t, t) : b \in 0..MaxTuples,
                        a \in {0, MaxTuples},
                        t \in {0, MaxTuples}}

bondedInteractions(top) == top.bonded
angleInteractions(top) == top.angle
torsionInteractions(top) == top.torsion
nonbondedInteractions(top) == top.nonbonded

---------------------------------------------------------------------------
(* Parameter table and per-calculation setup                               *)

\* the null table pointer, and a loaded table: a set of <<kind, type key>>
\* records
NullParameters == [null |-> TRUE, records |-> {}]

Parameters(table) == [null |-> FALSE, records |-> table]

\* the atom typer: the type label of an atom index
TypeOf(atom) == 100 + atom

TypeKey(atoms) == [i \in 1..Len(atoms) |-> TypeOf(atoms[i])]

Reverse(s) == [i \in 1..Len(s) |-> s[Len(s) + 1 - i]]

\* the records of a table holding every key of the topologies
AllRecords ==
    {<<"BondStretch", TypeKey(<<i - 1, i>>)>> : i \in 1..MaxTuples}
    \cup {<<"AngleBend", Reverse(TypeKey(<<i - 1, i, i + 1>>))>> : i \in 1..MaxTuples}
    \cup {<<"Torsion", TypeKey(<<i - 1, i, i + 1, i + 2>>)>> : i \in 1..MaxTuples}
    \cup {<<"Nonbonded", TypeKey(<<i - 1, i + 2>>)>> : i \in 1..MaxTuples}

Tables ==
    {AllRecords,
     AllRecords \ {<<"BondStretch", TypeKey(<<1, 2>>)>>},
     AllRecords \ {<<"Torsion", TypeKey(<<0, 1, 2, 3>>)>>},
     {}}

\* lookup: the key as given, and for angles and torsions also its reverse
Lookup(table, kind, key) ==
    \/ <<kind, key>> \in table
    \/ /\ kind \in {"AngleBend", "Torsion"}
       /\ <<kind, Reverse(key)>> \in table

\* OplsCalculation::setup(parameters): true iff a record matches.  With a
\* null table the callee works on an absent object and what it returns is
\* not determined: the outcome r is chosen by the caller of this operator.
CalcSetup(c, params, r) ==
    IF params = NullParameters THEN r
    ELSE Lookup(params.records, c.kind, TypeKey(c.atoms))

---------------------------------------------------------------------------
(* ForceField base class                                                   *)

AnalyticalGradient == "AnalyticalGradient"

\* a calculation as constructed: its kind, its atoms, not set up; born is
\* the number of the setup() call that constructed it, calls the number of
\* times setup(parameters) was invoked on it
NewCalculation(kind, atoms, call) ==
    [kind |-> kind, atoms |-> atoms, isSetup |-> FALSE, born |-> call, calls |-> 0]

OplsBondStrechCalculation(a, b, call) == NewCalculation("BondStretch", <<a, b>>, call)
OplsAngleBendCalculation(a, b, c, call) == NewCalculation("AngleBend", <<a, b, c>>, call)
OplsTorsionCalculation(a, b, c, d, call) == NewCalculation("Torsion", <<a, b, c, d>>, call)
OplsNonbondedCalculation(a, b, call) == NewCalculation("Nonbonded", <<a, b>>, call)

addCalculation(cs, c) == Append(cs, c)

setCalculationSetup(c, setup) == [c EXCEPT !.isSetup = setup]

\* flags set by the constructor
CtorFlagsNoPlugin(pluginFound) ==
    IF pluginFound THEN {AnalyticalGradient} ELSE {}

CtorFlags(pluginFound) == {AnalyticalGradient}

\* m_parameters after the constructor
CtorParameters(pluginFound, table) ==
    IF pluginFound THEN Parameters(table) ELSE NullParameters

---------------------------------------------------------------------------
(* OplsForceField::setup()                                                 *)

RECURSIVE AddEach(_, _, _, _, _)
\* one foreach loop of setup(): a calculation per tuple, in sequence order
AddEach(cs, tuples, i, kind, call) ==
    IF i > Len(tuples) THEN cs
    ELSE LET x == tuples[i]
             c == CASE kind = "BondStretch" ->
                         OplsBondStrechCalculation(x[1], x[2], call)
                    [] kind = "AngleBend" ->
                         OplsAngleBendCalculation(x[1], x[2], x[3], call)
                    [] kind = "Torsion" ->
                         OplsTorsionCalculation(x[1], x[2], x[3], x[4], call)
                    [] kind = "Nonbonded" ->
                         OplsNonbondedCalculation(x[1], x[2], call)
         IN AddEach(addCalculation(cs, c), tuples, i + 1, kind, call)

\* the four loops with the angle and torsion loops exchanged
EnumerateTorsionFirst(cs, top, call) ==
    LET c1 == AddEach(cs, bondedInteractions(top), 1, "BondStretch", call)
        c2 == AddEach(c1, torsionInteractions(top), 1, "Torsion", call)
        c3 == AddEach(c2, angleInteractions(top), 1, "AngleBend", call)
    IN AddEach(c3, nonbondedInteractions(top), 1, "Nonbonded", call)

\* the four foreach loops, lines 75-96
Enumerate(cs, top, call) ==
    LET c1 == AddEach(cs, bondedInteractions(top), 1, "BondStretch", call)
        c2 == AddEach(c1, angleInteractions(top), 1, "AngleBend", call)
        c3 == AddEach(c2, torsionInteractions(top), 1, "Torsion", call)
    IN AddEach(c3, nonbondedInteractions(top), 1, "Nonbonded", call)

\* ok after one calculation, forgetting an earlier failure
NextOkLast(ok, setup) == setup

\* lines 103-105: if(!setup) ok = false
NextOk(ok, setup) == IF ~setup THEN FALSE ELSE ok

\* the flag recorded is the overall result so far
RecordedFlagOk(ok, setup) == ok

\* line 107: the value handed to setCalculationSetup
RecordedFlag(ok, setup) == setup

RECURSIVE SetupLoop(_, _, _, _, _, _)
\* the loop of lines 100-108 from collection position i on
SetupLoop(cs, i, ok, lg, params, r) ==
    IF i > Len(cs) THEN [calculations |-> cs, ok |-> ok, log |-> lg]
    ELSE LET setup == CalcSetup(cs[i], params, r)
             ok2 == NextOk(ok, setup)
             invoked == [cs[i] EXCEPT !.calls = @ + 1]
             c == setCalculationSetup(invoked, RecordedFlag(ok2, setup))
         IN SetupLoop([cs EXCEPT ![i] = c], i + 1, ok2,
                      Append(lg, [index |-> i, result |-> setup]), params, r)

\* line 72 returning true
NoTopologyReturnTrue == TRUE

\* line 72: return false
NoTopologyReturn == FALSE

\* setup() as a function of the engine state; call is this call's number
SetupCall(top, cs, params, r, call) ==
    IF top = NoTopology
    THEN [calculations |-> cs, ret |-> NoTopologyReturn, log |-> <<>>,
          nullSetup |-> FALSE]
    ELSE LET added == Enumerate(cs, top, call)
             done == SetupLoop(added, 1, TRUE, <<>>, params, r)
         IN [calculations |-> done.calculations, ret |-> done.ok,
             log |-> done.log,
             nullSetup |-> (params = NullParameters /\ Len(added) > 0)]

---------------------------------------------------------------------------
(* GraphicsTransform                                                       *)

RECURSIVE GCD(_, _)
GCD(a, b) == IF b = 0 THEN a ELSE GCD(b, a % b)

Abs(x) == IF x < 0 THEN -x ELSE x

Sign(x) == IF x < 0 THEN -1 ELSE IF x > 0 THEN 1 ELSE 0

\* A float value is a fraction <<n, d>> in lowest terms with d >= 0; the
\* special values of float arithmetic have the divisor 0: <<1, 0>> is inf,
\* <<-1, 0>> is -inf and <<0, 0>> is nan.  The rounding of float arithmetic
\* and the sign of a zero are not modelled; two nan are the same value here.
Inf == <<1, 0>>
NaN == <<0, 0>>

\* the quotient n / d of two integers: x / 0 is inf or -inf by the sign of
\* x, and 0 / 0 is nan
Frac(n, d) ==
    IF d = 0 THEN <<Sign(n), 0>>
    ELSE LET g == GCD(Abs(n), Abs(d))
             s == IF d < 0 THEN -1 ELSE 1
         IN <<(s * n) \div g, (s * d) \div g>>

Num(n) == Frac(n, 1)

\* float product: inf * 0 is nan
FMul(a, b) == Frac(a[1] * b[1], a[2] * b[2])

\* float sum: inf + -inf is nan, nan + x is nan
FAdd(a, b) ==
    IF a = NaN \/ b = NaN THEN NaN
    ELSE IF a[2] = 0 /\ b[2] = 0 THEN (IF a = b THEN a ELSE NaN)
    ELSE IF a[2] = 0 THEN a
    ELSE IF b[2] = 0 THEN b
    ELSE Frac(a[1] * b[2] + b[1] * a[2], a[2] * b[2])

FNeg(a) == <<-a[1], a[2]>>

FSub(a, b) == FAdd(a, FNeg(b))

\* 1 / b
Recip(b) ==
    IF b = NaN THEN NaN
    ELSE IF b[1] = 0 THEN Inf
    ELSE <<Sign(b[1]) * b[2], Abs(b[1])>>

\* float quotient
FDiv(a, b) == FMul(a, Recip(b))

Cells == (0..3) \X (0..3)

\* GraphicsTransform(): all zeros
ZeroMatrix == [rc \in Cells |-> Num(0)]

\* transform(row, column) = value
Set(m, row, column, value) == [m EXCEPT ![<<row, column>>] = value]

identity == [rc \in Cells |-> IF rc[1] = rc[2] THEN Num(1) ELSE Num(0)]

translation(x, y, z) ==
    LET t0 == identity
        t1 == Set(t0, 0, 3, Num(x))
        t2 == Set(t1, 1, 3, Num(y))
    IN Set(t2, 2, 3, Num(z))

frustum(left, right, top, bottom, nearDistance, farDistance) ==
    LET t0 == ZeroMatrix
        t1 == Set(t0, 0, 0, Frac(2 * nearDistance, right - left))
        t2 == Set(t1, 1, 1, Frac(2 * nearDistance, top - bottom))
        t3 == Set(t2, 2, 0, Frac(right + left, right - left))
        t4 == Set(t3, 2, 1, Frac(top + bottom, top - bottom))
        t5 == Set(t4, 2, 2, Frac(-(farDistance + nearDistance), farDistance - nearDistance))
        t6 == Set(t5, 2, 3, Frac(-(2 * farDistance * nearDistance), farDistance - nearDistance))
    IN Set(t6, 3, 2, Num(-1))

orthographic(left, right, top, bottom, nearDistance, farDistance) ==
    LET t0 == ZeroMatrix
        t1 == Set(t0, 0, 0, Frac(2, right - left))
        t2 == Set(t1, 0, 3, Frac(-(right + left), right - left))
        t3 == Set(t2, 1, 1, Frac(2, top - bottom))
        t4 == Set(t3, 1, 3, Frac(-(top + bottom), top - bottom))
        t5 == Set(t4, 2, 2, Frac(-2, farDistance - nearDistance))
        t6 == Set(t5, 2, 3, Frac(-(farDistance + nearDistance), farDistance - nearDistance))
    IN Set(t6, 3, 3, Num(1))

\* The only angle handed to perspective() (radians) and to rotation()
\* (degrees) is 0: it is the one angle for which the floats the code gets
\* from tan, cos and sin are exact (tan 0 = 0, cos 0 = 1, sin 0 = 0).  For
\* every other angle they carry a rounding residue (cos of 90 degrees is
\* 6.1e-17, 1.0 / tan of half the float nearest pi/2 is 0.99999994) that the
\* fractions of this model do not hold.
PerspectiveAngles == {0}

\* 1.0 / tan(angle / 2.0) for angle = 0: tan(0) is 0 and 1.0 / 0 is inf
CotHalf(angle) == CASE angle = 0 -> Recip(Num(0))

perspective(angle, aspectRatio, nearDistance, farDistance) ==
    LET f == CotHalf(angle)
        t0 == ZeroMatrix
        t1 == Set(t0, 0, 0, FDiv(f, Num(aspectRatio)))
        t2 == Set(t1, 1, 1, f)
        t3 == Set(t2, 2, 2, Frac(nearDistance + farDistance, nearDistance - farDistance))
        t4 == Set(t3, 2, 3, Frac(2 * nearDistance * farDistance, nearDistance - farDistance))
    IN Set(t4, 3, 2, Num(-1))

RotationAngles == {0}

\* cos(angle * DegreesToRadians) for angle = 0
Cos(angle) == CASE angle = 0 -> Num(1)

\* sin(angle * DegreesToRadians) for angle = 0
Sin(angle) == CASE angle = 0 -> Num(0)

\* axis.normalized() for an axis along one coordinate axis (at most one
\* component is not 0): each component over the norm.  For the zero vector
\* the vector library either divides (0 / 0 in each component) or hands the
\* vector back as it is; both outcomes are kept.
Normalized(axis) ==
    LET norm == Abs(axis[1]) + Abs(axis[2]) + Abs(axis[3])
    IN {[i \in 1..3 |-> Frac(axis[i], norm)]}
           \cup (IF norm = 0 THEN {[i \in 1..3 |-> Num(0)]} ELSE {})

\* rotation(axis, angle), v being the value of axis.normalized()
rotation(v, angle) ==
    LET x == v[1]
        y == v[2]
        z == v[3]
        c == Cos(angle)
        s == Sin(angle)
        one == Num(1)
        Diag(u) == FAdd(FMul(u, u), FMul(FSub(one, FMul(u, u)), c))
        OffPlus(u, w, q) == FAdd(FMul(FMul(u, w), FSub(one, c)), FMul(q, s))
        OffMinus(u, w, q) == FSub(FMul(FMul(u, w), FSub(one, c)), FMul(q, s))
        t0 == identity
        t1 == Set(t0, 0, 0, Diag(x))
        t2 == Set(t1, 0, 1, OffMinus(x, y, z))
        t3 == Set(t2, 0, 2, OffPlus(x, z, y))
        t4 == Set(t3, 1, 0, OffPlus(x, y, z))
        t5 == Set(t4, 1, 1, Diag(y))
        t6 == Set(t5, 1, 2, OffMinus(y, z, x))
        t7 == Set(t6, 2, 0, OffMinus(x, z, y))
        t8 == Set(t7, 2, 1, OffPlus(y, z, x))
    IN Set(t8, 2, 2, Diag(z))

\* *m_matrix * *transform.m_matrix
multiply(m, o) ==
    [rc \in Cells |->
        FAdd(FAdd(FAdd(FMul(m[<<rc[1], 0>>], o[<<0, rc[2]>>]),
                       FMul(m[<<rc[1], 1>>], o[<<1, rc[2]>>])),
                  FMul(m[<<rc[1], 2>>], o[<<2, rc[2]>>])),
             FMul(m[<<rc[1], 3>>], o[<<3, rc[2]>>]))]

\* the three indices of 0..3 other than i, in order
Others(i) == CASE i = 0 -> <<1, 2, 3>> [] i = 1 -> <<0, 2, 3>>
               [] i = 2 -> <<0, 1, 3>> [] i = 3 -> <<0, 1, 2>>

\* determinant of m without row r and column c
Minor(m, r, c) ==
    LET R == Others(r)
        C == Others(c)
        e(i, j) == m[<<R[i], C[j]>>]
        Det2(a, b, d, g) == FSub(FMul(a, g), FMul(b, d))
    IN FAdd(FSub(FMul(e(1, 1), Det2(e(2, 2), e(2, 3), e(3, 2), e(3, 3))),
                 FMul(e(1, 2), Det2(e(2, 1), e(2, 3), e(3, 1), e(3, 3)))),
            FMul(e(1, 3), Det2(e(2, 1), e(2, 2), e(3, 1), e(3, 2))))

Cofactor(m, r, c) ==
    IF (r + c) % 2 = 0 THEN Minor(m, r, c) ELSE FNeg(Minor(m, r, c))

Determinant(m) ==
    FAdd(FAdd(FAdd(FMul(m[<<0, 0>>], Cofactor(m, 0, 0)),
                   FMul(m[<<0, 1>>], Cofactor(m, 0, 1))),
              FMul(m[<<0, 2>>], Cofactor(m, 0, 2))),
         FMul(m[<<0, 3>>], Cofactor(m, 0, 3)))

\* m_matrix->inverse(): the cofactors over the determinant; for a singular
\* matrix the quotients by 0 are inf, -inf and nan
inverse(m) ==
    LET det == Determinant(m)
    IN [rc \in Cells |-> FDiv(Cofactor(m, rc[2], rc[1]), det)]

Coords == 0..MaxCoord
Distances == 1..(MaxCoord + 1)

\* the axes handed to rotation(): along one coordinate axis, or zero
Axes ==
    {<<x, 0, 0>> : x \in Coords} \cup {<<0, y, 0>> : y \in Coords}
        \cup {<<0, 0, z>> : z \in Coords}

\* the values written through operator()(row, column)
Values == {Num(c) : c \in Coords}

\* the transforms handed to operator*=, operator= and the copy constructor
Operands ==
    {ZeroMatrix, identity, translation(1, 0, 1), frustum(0, 1, 1, 0, 1, 2),
     frustum(0, 0, 1, 0, 1, 2), orthographic(0, 1, 1, 0, 1, 2)}

---------------------------------------------------------------------------
(* The force field engine as a state machine                               *)

\* a transform that is never touched by the engine's operations
TransformIdle ==
    /\ m_matrix = ZeroMatrix
    /\ args = [op |-> "GraphicsTransform"]
    /\ nops = 0

\* the state after OplsForceField::OplsForceField()
Init ==
    /\ \E pluginFound \in BOOLEAN, table \in Tables :
          /\ m_parameters = CtorParameters(pluginFound, table)
          /\ flags = CtorFlags(pluginFound)
    /\ topology = NoTopology
    /\ calculations = <<>>
    /\ ret = FALSE
    /\ log = <<>>
    /\ nullSetup = FALSE
    /\ nsetups = 0
    /\ last = "construct"
    /\ TransformIdle

\* ForceField::setTopology(topology); a null pointer detaches the topology.
\* Not taken once the last setup() call of the run has been made.
SetTopology ==
    /\ nsetups < MaxSetups
    /\ \E top \in Topologies \cup {NoTopology} : topology' = top
    /\ last' = "setTopology"
    /\ UNCHANGED <<m_parameters, flags, calculations, ret, log, nullSetup,
                   nsetups, m_matrix, args, nops>>

\* OplsForceField::setup(); r is what the calculations' setup returns in
\* this call when the table is null
Setup ==
    /\ nsetups < MaxSetups
    /\ \E r \in (IF m_parameters = NullParameters THEN BOOLEAN ELSE {FALSE}) :
          LET res == SetupCall(topology, calculations, m_parameters, r,
                               nsetups + 1)
          IN /\ calculations' = res.calculations
             /\ ret' = res.ret
             /\ log' = res.log
             /\ nullSetup' = (nullSetup \/ res.nullSetup)
    /\ nsetups' = nsetups + 1
    /\ last' = "setup"
    /\ UNCHANGED <<topology, m_parameters, flags, m_matrix, args, nops>>

Next == SetTopology \/ Setup

Spec == Init /\ [][Next]_vars

---------------------------------------------------------------------------
(* The transform as a state machine                                        *)

\* an engine that is never touched by the transform's operations
EngineIdle ==
    /\ topology = NoTopology
    /\ m_parameters = NullParameters
    /\ flags = CtorFlags(FALSE)
    /\ calculations = <<>>
    /\ ret = FALSE
    /\ log = <<>>
    /\ nullSetup = FALSE
    /\ nsetups = 0
    /\ last = "construct"

\* the state after GraphicsTransform::GraphicsTransform()
InitTransform ==
    /\ m_matrix = ZeroMatrix
    /\ args = [op |-> "GraphicsTransform"]
    /\ nops = 0
    /\ EngineIdle

\* A static method returns a new transform, on which no in-place operation
\* has been made yet.
Identity ==
    /\ m_matrix' = identity
    /\ args' = [op |-> "identity"]
    /\ nops' = 0
    /\ UNCHANGED ffvars

Translation ==
    /\ \E x \in Coords, y \in Coords, z \in Coords :
          /\ m_matrix' = translation(x, y, z)
          /\ args' = [op |-> "translation", x |-> x, y |-> y, z |-> z]
    /\ nops' = 0
    /\ UNCHANGED ffvars

Rotation ==
    /\ \E axis \in Axes, angle \in RotationAngles :
          \E v \in Normalized(axis) :
             /\ m_matrix' = rotation(v, angle)
             /\ args' = [op |-> "rotation", axis |-> axis, angle |-> angle]
    /\ nops' = 0
    /\ UNCHANGED ffvars

Perspective ==
    /\ \E angle \in PerspectiveAngles, aspect \in Distances,
          n \in Distances, f \in Distances :
          /\ m_matrix' = perspective(angle, aspect, n, f)
          /\ args' = [op |-> "perspective", angle |-> angle,
                      aspectRatio |-> aspect, nearDistance |-> n,
                      farDistance |-> f]
    /\ nops' = 0
    /\ UNCHANGED ffvars

Frustum ==
    /\ \E l \in Coords, r \in Coords, t \in Coords, b \in Coords,
          n \in Distances, f \in Distances :
          /\ m_matrix' = frustum(l, r, t, b, n, f)
          /\ args' = [op |-> "frustum", left |-> l, right |-> r, top |-> t,
                      bottom |-> b, nearDistance |-> n, farDistance |-> f]
    /\ nops' = 0
    /\ UNCHANGED ffvars

Orthographic ==
    /\ \E l \in Coords, r \in Coords, t \in Coords, b \in Coords,
          n \in Distances, f \in Distances :
          /\ m_matrix' = orthographic(l, r, t, b, n, f)
          /\ args' = [op |-> "orthographic", left |-> l, right |-> r,
                      top |-> t, bottom |-> b, nearDistance |-> n,
                      farDistance |-> f]
    /\ nops' = 0
    /\ UNCHANGED ffvars

\* GraphicsTransform(transform) and GraphicsTransform(matrix): a new
\* transform holding a copy
Copy ==
    /\ \E o \in Operands : m_matrix' = o
    /\ args' = [op |-> "copy"]
    /\ nops' = 0
    /\ UNCHANGED ffvars

\* invert(); inverted() gives the same matrix in a new transform
Invert ==
    /\ nops < MaxOps
    /\ m_matrix' = inverse(m_matrix)
    /\ args' = [op |-> "invert"]
    /\ nops' = nops + 1
    /\ UNCHANGED ffvars

\* operator*=(transform); multiply(transform) and operator*(transform) give
\* the same matrix in a new transform
MultiplyAssign ==
    /\ nops < MaxOps
    /\ \E o \in Operands : m_matrix' = multiply(m_matrix, o)
    /\ args' = [op |-> "operator*="]
    /\ nops' = nops + 1
    /\ UNCHANGED ffvars

\* operator=(transform)
Assign ==
    /\ nops < MaxOps
    /\ \E o \in Operands : m_matrix' = o
    /\ args' = [op |-> "operator="]
    /\ nops' = nops + 1
    /\ UNCHANGED ffvars

\* transform(row, column) = value, through float& operator()(int, int)
Write ==
    /\ nops < MaxOps
    /\ \E rc \in Cells, value \in Values :
          m_matrix' = Set(m_matrix, rc[1], rc[2], value)
    /\ args' = [op |-> "operator()"]
    /\ nops' = nops + 1
    /\ UNCHANGED ffvars

NextTransform ==
    \/ Identity
    \/ Translation
    \/ Rotation
    \/ Perspective
    \/ Frustum
    \/ Orthographic
    \/ Copy
    \/ Invert
    \/ MultiplyAssign
    \/ Assign
    \/ Write

SpecTransform == InitTransform /\ [][NextTransform]_vars

---------------------------------------------------------------------------
(* Properties of OplsForceField                                            *)

\* number of interaction tuples of a topology
Total(top) ==
    Len(top.bonded) + Len(top.angle) + Len(top.torsion) + Len(top.nonbonded)

\* c is the calculation of the given kind and arity for the tuple
IsFor(c, kind, arity, tuple) ==
    /\ c.kind = kind
    /\ Len(c.atoms) = arity
    /\ Len(tuple) = arity
    /\ \A p \in 1..arity : c.atoms[p] = tuple[p]

\* the state right after a setup() call made with a topology attached
AfterSetup == last = "setup" /\ ~topology.null

\* C1: one setup() call with a topology of B bonded, A angle, T torsion and
\* N nonbonded tuples constructs exactly B+A+T+N calculations and appends
\* them: the bonded ones, then the angle, torsion and nonbonded ones, each
\* group in the topology's order, each with the kind, arity and atoms of its
\* tuple.
C1_EnumerationFidelity ==
    [][(nsetups' # nsetups /\ ~topology.null) =>
         LET old == Len(calculations)
             B == Len(topology.bonded)
             A == Len(topology.angle)
             T == Len(topology.torsion)
             N == Len(topology.nonbonded)
             new == calculations'
         IN /\ Len(new) = old + B + A + T + N
            /\ Cardinality({i \in 1..Len(new) : new[i].born = nsetups'})
                 = B + A + T + N
            /\ \A i \in 1..old : new[i].born = calculations[i].born
            /\ \A i \in 1..B :
                 IsFor(new[old + i], "BondStretch", 2, topology.bonded[i])
            /\ \A i \in 1..A :
                 IsFor(new[old + B + i], "AngleBend", 3, topology.angle[i])
            /\ \A i \in 1..T :
                 IsFor(new[old + B + A + i], "Torsion", 4, topology.torsion[i])
            /\ \A i \in 1..N :
                 IsFor(new[old + B + A + T + i], "Nonbonded", 2,
                       topology.nonbonded[i])
      ]_vars

\* a setup() call has run on a topology with every kind of tuple and at
\* least two bonded tuples
C1_Witness ==
    /\ AfterSetup
    /\ Len(topology.bonded) >= 2
    /\ Len(topology.angle) >= 2
    /\ Len(topology.torsion) >= 2
    /\ Len(topology.nonbonded) >= 2
    /\ Len(calculations) >= Total(topology)

\* C2: after a setup() call the collection holds only the calculations
\* enumerated from the attached topology; none made by an earlier call is
\* left in it.
C2_ResetupDiscards ==
    AfterSetup =>
        /\ Len(calculations) = Total(topology)
        /\ \A i \in 1..Len(calculations) : calculations[i].born = nsetups

\* C3: with a topology attached, setup() returns true iff the setup call of
\* every calculation of the collection returned true, wherever the failing
\* one is.
C3_ReturnIffAllSetUp ==
    AfterSetup =>
        /\ {log[k].index : k \in 1..Len(log)} = 1..Len(calculations)
        /\ ret = (\A k \in 1..Len(log) : log[k].result)

\* setup() returned false although the last calculation's setup succeeded
C3_Witness ==
    /\ AfterSetup
    /\ Len(log) >= 2
    /\ ~ret
    /\ \E k \in 1..(Len(log) - 1) : ~log[k].result
    /\ log[Len(log)].result

\* C4: when exactly one calculation fails its setup for want of a table
\* entry, setup() returns false, count() is the number of tuples of the
\* topology, that calculation is recorded as not set up and every other one
\* as set up.
C4_PartialFailureIsolation ==
    (/\ AfterSetup
     /\ ~m_parameters.null
     /\ Cardinality({k \in 1..Len(log) : ~log[k].result}) = 1) =>
        /\ ~ret
        /\ Len(calculations) = Total(topology)
        /\ \A k \in 1..Len(log) :
             calculations[log[k].index].isSetup = log[k].result

\* C5: without a topology setup() returns false and does nothing else: the
\* collection (calculations, their flags and their setup call counts) is
\* unchanged and no calculation's setup is invoked.
C5_NoTopologyFailsImmediately ==
    [][(nsetups' # nsetups /\ topology.null) =>
         /\ ret' = FALSE
         /\ calculations' = calculations
         /\ log' = <<>>
         /\ nullSetup' = nullSetup
      ]_vars

\* setup() was called without a topology on an engine holding calculations
C5_Witness ==
    /\ last = "setup"
    /\ topology.null
    /\ Len(calculations) > 0
    /\ ~ret

\* C6: a second setup() right after a first, same topology and same table,
\* leaves a collection of the same size with the same kind, atoms and flag
\* at every index, and returns the same value.
C6_IdempotentResetup ==
    [][(/\ nsetups' # nsetups
        /\ AfterSetup
        /\ ~m_parameters.null) =>
         /\ Len(calculations') = Len(calculations)
         /\ \A i \in 1..Len(calculations) :
              /\ i \in 1..Len(calculations')
              /\ calculations'[i].kind = calculations[i].kind
              /\ calculations'[i].atoms = calculations[i].atoms
              /\ calculations'[i].isSetup = calculations[i].isSetup
         /\ ret' = ret
      ]_vars

\* C7: an engine whose parameter table could not be loaded never invokes a
\* calculation's setup with the absent (null) table.
C7_NoSetupWithNullTable == ~nullSetup

\* C8: the AnalyticalGradient flag is set from construction on, with or
\* without the plugin, through every setup() call.
C8_AnalyticalGradientAlways == AnalyticalGradient \in flags

\* an engine built without the plugin has gone through a failed setup()
C8_Witness ==
    /\ m_parameters.null
    /\ AfterSetup
    /\ Len(calculations) > 0
    /\ ~ret

\* C10: with a topology attached, setup(parameters) is invoked on every
\* calculation of the collection, in collection order, also after a failed
\* one, and each calculation's flag is what its own call returned.
C10_EveryCalculationOwnResult ==
    AfterSetup =>
        /\ Len(log) = Len(calculations)
        /\ \A k \in 1..Len(log) :
             /\ log[k].index = k
             /\ calculations[k].isSetup = log[k].result

\* a calculation set up after a failed one carries its own, true, flag
C10_Witness ==
    /\ AfterSetup
    /\ \E j \in 1..Len(calculations) : \E k \in 1..Len(calculations) :
         /\ j < k
         /\ ~calculations[j].isSetup
         /\ calculations[k].isSetup
         /\ ~log[j].result
         /\ log[k].result

\* C11: over any sequence of setup() calls of the engine, setup(parameters)
\* is invoked at most once on each calculation object; a calculation made by
\* one setup() call is not set up again by a later one.
C11_CalculationSetUpOnce ==
    \A i \in 1..Len(calculations) : calculations[i].calls <= 1

---------------------------------------------------------------------------
(* Properties of GraphicsTransform                                         *)

\* the matrix of the documentation of frustum(), (row, column)
DocumentedFrustum(l, r, t, b, n, f) ==
    [rc \in Cells |->
        CASE rc = <<0, 0>> -> Frac(2 * n, r - l)
          [] rc = <<1, 1>> -> Frac(2 * n, t - b)
          [] rc = <<0, 2>> -> Frac(r + l, r - l)
          [] rc = <<1, 2>> -> Frac(t + b, t - b)
          [] rc = <<2, 2>> -> Frac(-(f + n), f - n)
          [] rc = <<2, 3>> -> Frac(-(2 * f * n), f - n)
          [] rc = <<3, 2>> -> Num(-1)
          [] OTHER -> Num(0)]

\* C9: frustum() returns the matrix of its documentation, in the (row,
\* column) addressing under which translation() puts the vector in column 3.
\* Stated for the arguments for which the documented quotients are defined
\* (no zero divisor).
C9_FrustumAsDocumented ==
    /\ args.op = "translation" =>
          /\ m_matrix[<<0, 3>>] = Num(args.x)
          /\ m_matrix[<<1, 3>>] = Num(args.y)
          /\ m_matrix[<<2, 3>>] = Num(args.z)
    /\ (/\ args.op = "frustum"
        /\ args.right # args.left
        /\ args.top # args.bottom
        /\ args.farDistance # args.nearDistance) =>
          m_matrix = DocumentedFrustum(args.left, args.right, args.top,
                                       args.bottom, args.nearDistance,
                                       args.farDistance)

===========================================================================
